---- MODULE Spec2Model ----
(***************************************************************************)
(* Model of symbolic/angvelxform_dot.ipynb: a notebook whose code cells    *)
(* build symbolic expressions, differentiate them with respect to time and *)
(* substitute the time dependence away.  The kernel session is the state   *)
(* machine: the namespace of bound names, the output area of every cell    *)
(* and the position of the next statement to execute.                      *)
(***************************************************************************)
EXTENDS Integers, Sequences, FiniteSets, TLC

(***************************************************************************)
(* Bounds of the model.                                                    *)
(***************************************************************************)
\* number of times the cells are run in one kernel session
MaxRuns == 3
\* numeric sample points for theta, sin(theta), cos(theta), theta_dot range
\* over -SampleMax..SampleMax
SampleMax == 2
\* sample vectors varphi, varphi_dot have components in -VecMax..VecMax
VecMax == 1

(***************************************************************************)
(* Expressions.  Every node of an expression tree is a record of one       *)
(* shape: op is the node class, name/real identify a Symbol or an applied  *)
(* undefined function (its name and its real=True assumption), n/d is the  *)
(* value of a Rational, args are the sub-expressions.                      *)
(***************************************************************************)
Node(op, name, real, n, d, args) ==
    [op |-> op, name |-> name, real |-> real, n |-> n, d |-> d, args |-> args]

Abs(x) == IF x < 0 THEN -x ELSE x

RECURSIVE Gcd(_, _)
Gcd(a, b) == IF b = 0 THEN a ELSE Gcd(b, a % b)

\* Rational(p, q) in lowest terms with a positive denominator
Num(p, q) ==
    LET g == Gcd(Abs(p), Abs(q))
        s == IF q < 0 THEN -1 ELSE 1
    IN  Node("num", "", FALSE, (s * p) \div g, (s * q) \div g, <<>>)

IntNum(k) == Num(k, 1)
Zero == IntNum(0)
One == IntNum(1)

IsNum(e) == e.op = "num"
IsInt(e) == e.op = "num" /\ e.d = 1

NumAdd(a, b) == Num(a.n * b.d + b.n * a.d, a.d * b.d)
NumMul(a, b) == Num(a.n * b.n, a.d * b.d)

RECURSIVE IntPow(_, _)
IntPow(b, k) == IF k = 0 THEN 1 ELSE b * IntPow(b, k - 1)

\* Rational ** Integer
NumPow(a, k) ==
    IF k >= 0 THEN Num(IntPow(a.n, k), IntPow(a.d, k))
    ELSE Num(IntPow(a.d, -k), IntPow(a.n, -k))

\* Symbol(name, real=real)
Sym(name, real) == Node("sym", name, real, 0, 1, <<>>)

\* Function(sym)(arg): the applied undefined function takes the name and
\* the assumptions of the symbol it is made from
Apply(sym, arg) == Node("fn", sym.name, sym.real, 0, 1, <<arg>>)

\* Derivative(e, v), unevaluated
Derivative(e, v) == Node("der", "", FALSE, 0, 1, <<e, v>>)

Fun(op, x) == Node(op, "", FALSE, 0, 1, <<x>>)
RawPow(b, e) == Node("pow", "", FALSE, 0, 1, <<b, e>>)
RawMul(args) == Node("mul", "", FALSE, 0, 1, args)
RawAdd(args) == Node("add", "", FALSE, 0, 1, args)

(***************************************************************************)
(* The automatic evaluation of Pow, Mul and Add when they are constructed. *)
(***************************************************************************)
\* b ** e
MkPow(b, e) ==
    IF IsNum(e) /\ e.n = 0 THEN One
    ELSE IF IsNum(e) /\ e.n = 1 /\ e.d = 1 THEN b
    ELSE IF IsNum(b) /\ IsInt(e) /\ (b.n # 0 \/ e.n > 0) THEN NumPow(b, e.n)
    ELSE IF b.op = "pow" /\ IsInt(e) /\ IsNum(b.args[2])
         THEN LET f == NumMul(b.args[2], e)
              IN  IF f.n = 0 THEN One
                  ELSE IF f.n = 1 /\ f.d = 1 THEN b.args[1]
                  ELSE RawPow(b.args[1], f)
    ELSE RawPow(b, e)

\* one level of flattening: the arguments of nested nodes of class op
RECURSIVE Flatten(_, _)
Flatten(op, s) ==
    IF s = <<>> THEN <<>>
    ELSE (IF Head(s).op = op THEN Head(s).args ELSE <<Head(s)>>)
         \o Flatten(op, Tail(s))

\* the product of the Rational factors of s
RECURSIVE Coeff(_)
Coeff(s) ==
    IF s = <<>> THEN One
    ELSE IF IsNum(Head(s)) THEN NumMul(Head(s), Coeff(Tail(s)))
    ELSE Coeff(Tail(s))

RECURSIVE NonNum(_)
NonNum(s) ==
    IF s = <<>> THEN <<>>
    ELSE IF IsNum(Head(s)) THEN NonNum(Tail(s))
    ELSE <<Head(s)>> \o NonNum(Tail(s))

\* a factor as base ** Rational exponent
BaseOf(f) == IF f.op = "pow" /\ IsNum(f.args[2]) THEN f.args[1] ELSE f
ExpOf(f) == IF f.op = "pow" /\ IsNum(f.args[2]) THEN f.args[2] ELSE One

\* the sum of the exponents of the factors of s whose base is b
RECURSIVE ExpSum(_, _)
ExpSum(b, s) ==
    IF s = <<>> THEN Zero
    ELSE IF BaseOf(Head(s)) = b THEN NumAdd(ExpOf(Head(s)), ExpSum(b, Tail(s)))
    ELSE ExpSum(b, Tail(s))

\* powers of one base are gathered at the place of its first occurrence
RECURSIVE Gather(_, _)
Gather(s, i) ==
    IF i > Len(s) THEN <<>>
    ELSE LET b == BaseOf(s[i])
             seen == \E j \in 1..(i - 1) : BaseOf(s[j]) = b
             p == MkPow(b, ExpSum(b, s))
         IN  (IF seen \/ p = One THEN <<>> ELSE <<p>>) \o Gather(s, i + 1)

\* c * (the product of the factors fs), no further evaluation
Scale(c, fs) ==
    IF c.n = 0 THEN Zero
    ELSE IF fs = <<>> THEN c
    ELSE IF c = One THEN (IF Len(fs) = 1 THEN fs[1] ELSE RawMul(fs))
    ELSE RawMul(<<c>> \o fs)

\* a term as Rational coefficient * rest
TermCoeff(x) ==
    IF IsNum(x) THEN x
    ELSE IF x.op = "mul" /\ IsNum(x.args[1]) THEN x.args[1]
    ELSE One
TermRest(x) ==
    IF IsNum(x) THEN <<>>
    ELSE IF x.op = "mul" /\ IsNum(x.args[1]) THEN Tail(x.args)
    ELSE IF x.op = "mul" THEN x.args
    ELSE <<x>>

RECURSIVE CoeffSum(_, _)
CoeffSum(r, s) ==
    IF s = <<>> THEN Zero
    ELSE IF TermRest(Head(s)) = r THEN NumAdd(TermCoeff(Head(s)), CoeffSum(r, Tail(s)))
    ELSE CoeffSum(r, Tail(s))

\* like terms are collected at the place of their first occurrence
RECURSIVE Collect(_, _)
Collect(s, i) ==
    IF i > Len(s) THEN <<>>
    ELSE LET r == TermRest(s[i])
             seen == \E j \in 1..(i - 1) : TermRest(s[j]) = r
             x == Scale(CoeffSum(r, s), r)
         IN  (IF seen \/ x = Zero THEN <<>> ELSE <<x>>) \o Collect(s, i + 1)

\* Add(*terms)
MkAdd(terms) ==
    LET xs == Collect(Flatten("add", terms), 1)
    IN  IF xs = <<>> THEN Zero
        ELSE IF Len(xs) = 1 THEN xs[1]
        ELSE RawAdd(xs)

\* Rational * Add: the coefficient is distributed over the terms
Distribute(c, a) ==
    MkAdd([i \in 1..Len(a.args) |->
              Scale(NumMul(c, TermCoeff(a.args[i])), TermRest(a.args[i]))])

\* Mul(*factors)
MkMul(factors) ==
    LET fl == Flatten("mul", factors)
        c == Coeff(fl)
        fs == Gather(NonNum(fl), 1)
    IN  IF Len(factors) = 2 /\ IsNum(factors[1]) /\ factors[2].op = "add"
           /\ factors[1].n # 0 /\ factors[1] # One
        THEN Distribute(factors[1], factors[2])
        ELSE IF Len(factors) = 2 /\ IsNum(factors[2]) /\ factors[1].op = "add"
           /\ factors[2].n # 0 /\ factors[2] # One
        THEN Distribute(factors[2], factors[1])
        ELSE Scale(c, Flatten("mul", fs))

\* the operators of Python expressions
Times(a, b) == MkMul(<<a, b>>)
Neg(a) == MkMul(<<IntNum(-1), a>>)
Minus(a, b) == MkAdd(<<a, Neg(b)>>)
Over(a, b) == MkMul(<<a, MkPow(b, IntNum(-1))>>)

\* the constructor of a node class applied to new arguments
Rebuild(e, args) ==
    CASE e.op = "add" -> MkAdd(args)
      [] e.op = "mul" -> MkMul(args)
      [] e.op = "pow" -> MkPow(args[1], args[2])
      [] OTHER -> [e EXCEPT !.args = args]

(***************************************************************************)
(* Differentiation: expr.diff(v).                                          *)
(***************************************************************************)
\* DiffFun with the sign of the derivative of cos lost
DiffFunCosSign(e, dx) ==
    CASE e.op = "sin" -> MkMul(<<Fun("cos", e.args[1]), dx>>)
      [] e.op = "cos" -> MkMul(<<Fun("sin", e.args[1]), dx>>)
      [] e.op = "exp" -> MkMul(<<e, dx>>)
      [] e.op = "log" -> MkMul(<<MkPow(e.args[1], IntNum(-1)), dx>>)

\* the derivative of f(x) for the elementary function f, by the chain rule
DiffFun(e, dx) ==
    CASE e.op = "sin" -> MkMul(<<Fun("cos", e.args[1]), dx>>)
      [] e.op = "cos" -> MkMul(<<IntNum(-1), Fun("sin", e.args[1]), dx>>)
      [] e.op = "exp" -> MkMul(<<e, dx>>)
      [] e.op = "log" -> MkMul(<<MkPow(e.args[1], IntNum(-1)), dx>>)

\* the derivative of b ** x: self * (dexp * log(base) + dbase * exp / base)
DiffPow(e, db, dx) ==
    LET b == e.args[1]
        x == e.args[2]
    IN  MkMul(<<e, MkAdd(<<MkMul(<<dx, Fun("log", b)>>),
                           MkMul(<<MkMul(<<db, x>>), MkPow(b, IntNum(-1))>>)>>)>>)

\* the product rule: one term per factor, that factor differentiated
DiffMul(args, dargs) ==
    MkAdd([i \in 1..Len(args) |->
              MkMul([j \in 1..Len(args) |-> IF j = i THEN dargs[j] ELSE args[j]])])

\* an applied undefined function f(v) has the unevaluated derivative
\* Derivative(f(v), v); one that does not depend on v has derivative 0
DiffApplied(e, v) ==
    IF e.args[1] = v THEN Derivative(e, v) ELSE Zero

RECURSIVE Diff(_, _)
Diff(e, v) ==
    CASE e.op = "num" -> Zero
      [] e.op = "sym" -> IF e = v THEN One ELSE Zero
      [] e.op = "fn" -> DiffApplied(e, v)
      [] e.op = "der" -> IF Diff(e.args[1], v) = Zero THEN Zero ELSE Derivative(e, v)
      [] e.op = "add" -> MkAdd([i \in 1..Len(e.args) |-> Diff(e.args[i], v)])
      [] e.op = "mul" -> DiffMul(e.args, [i \in 1..Len(e.args) |-> Diff(e.args[i], v)])
      [] e.op = "pow" -> DiffPow(e, Diff(e.args[1], v), Diff(e.args[2], v))
      [] OTHER -> DiffFun(e, Diff(e.args[1], v))

(***************************************************************************)
(* Substitution: expr.subs(...).                                           *)
(***************************************************************************)
\* SubsDerivative with the rebuilt derivative evaluated
SubsDerivativeEvaluated(e, newargs) == Diff(newargs[1], newargs[2])

\* Derivative(expr, v) with old -> new applied inside it: the derivative is
\* rebuilt around the new expression and stays unevaluated
SubsDerivative(e, newargs) == Derivative(newargs[1], newargs[2])

\* expr._subs(old, new): a sub-expression that is old becomes new; the
\* other nodes are rebuilt from their substituted arguments
RECURSIVE Subs(_, _, _)
Subs(e, old, new) ==
    IF e = old THEN new
    ELSE IF e.args = <<>> THEN e
    ELSE LET newargs == [i \in 1..Len(e.args) |-> Subs(e.args[i], old, new)]
         IN  IF e.op = "der" THEN SubsDerivative(e, newargs)
             ELSE Rebuild(e, newargs)

\* expr.subs(pairs) for an ordered iterable of (old, new): the pairs are
\* applied one after the other, each to the result of the one before
RECURSIVE SubsSeq(_, _)
SubsSeq(e, pairs) ==
    IF pairs = <<>> THEN e
    ELSE SubsSeq(Subs(e, pairs[1][1], pairs[1][2]), Tail(pairs))

\* sympify of a replacement given as a Python string: a Symbol of that
\* name, with no assumptions
Sympify(str) == Sym(str, FALSE)

\* Matrix(v).norm(): sqrt of the sum of abs(x)**2, and abs(x)**2 is x**2
\* for a real x
AbsSq(x) ==
    IF x.op \in {"sym", "fn"} /\ x.real THEN MkPow(x, IntNum(2))
    ELSE MkPow(Fun("abs", x), IntNum(2))

\* Norm with the square root left out
NormSquared(v) == MkAdd([i \in 1..Len(v) |-> AbsSq(v[i])])

\* Matrix(v).norm()
Norm(v) == MkPow(MkAdd([i \in 1..Len(v) |-> AbsSq(v[i])]), Num(1, 2))

(***************************************************************************)
(* What an expression contains.                                            *)
(***************************************************************************)
\* the nodes of e, as a set
RECURSIVE Nodes(_)
Nodes(e) ==
    {e} \cup UNION {Nodes(e.args[i]) : i \in 1..Len(e.args)}

\* expr.free_symbols
FreeSymbols(e) == {x \in Nodes(e) : x.op = "sym"}
SymbolNames(e) == {x.name : x \in FreeSymbols(e)}
\* applied functions of time and unevaluated derivatives in e
AppliedIn(e) == {x \in Nodes(e) : x.op = "fn"}
DerivativesIn(e) == {x \in Nodes(e) : x.op = "der"}

(***************************************************************************)
(* Printing.  An expression is printed as a sequence of tokens; a symbol   *)
(* is printed as its name alone.  pycode(expr) prints Python source, with  *)
(* the elementary functions taken from the math module; str(expr), used    *)
(* for a displayed or printed expression, prints them plainly.             *)
(***************************************************************************)
RECURSIVE Join(_, _)
Join(parts, sep) ==
    IF Len(parts) = 1 THEN parts[1]
    ELSE parts[1] \o <<sep>> \o Join(Tail(parts), sep)

RECURSIVE Render(_, _)
Render(e, module) ==
    LET sub == [i \in 1..Len(e.args) |-> Render(e.args[i], module)]
    IN  CASE e.op = "num" ->
               IF e.d = 1 THEN <<ToString(e.n)>>
               ELSE <<"(", ToString(e.n), "/", ToString(e.d), ")">>
          [] e.op = "sym" -> <<e.name>>
          [] e.op = "fn" -> <<e.name, "(">> \o sub[1] \o <<")">>
          [] e.op = "der" -> <<"Derivative", "(">> \o Join(sub, ",") \o <<")">>
          [] e.op = "add" -> <<"(">> \o Join(sub, "+") \o <<")">>
          [] e.op = "mul" -> <<"(">> \o Join(sub, "*") \o <<")">>
          [] e.op = "pow" -> <<"(">> \o Join(sub, "**") \o <<")">>
          [] OTHER -> module \o <<e.op, "(">> \o sub[1] \o <<")">>

PyCode(e) == Render(e, <<"math", ".">>)
Str(e) == Render(e, <<>>)

(***************************************************************************)
(* The kernel session.                                                     *)
(***************************************************************************)
VARIABLES
    pc,       \* the statement to execute next: "L<line>", "done" or "error"
    ns,       \* the namespace: the names bound so far and their values
    it,       \* position of the iterator of the for loop over phi_names
    out,      \* the output area of every code cell
    hist,     \* this run's differentiations and substitutions, in order
    results   \* T_dot and theta_dot as each completed run left them

vars == <<pc, ns, it, out, hist, results>>

\* the value of a name that is not bound
None == Node("none", "", FALSE, 0, 1, <<>>)

\* the code cells, each named by the line of its first statement
Cells == {21, 82, 98, 108, 125, 144, 154, 170, 195, 212, 229, 247}

\* a fresh kernel: nothing is bound, no cell has output
Init ==
    /\ pc = "L21"
    /\ ns = [bound |-> {},
             theta |-> None, theta_dot |-> None, t |-> None,
             theta_t |-> None, Theta |-> None, T_dot |-> None,
             phi_names |-> <<>>, phi |-> <<>>, phi_t |-> <<>>,
             phi_d |-> <<>>, phi_n |-> <<>>, i |-> "",
             A |-> None, A_t |-> None, d |-> None]
    /\ it = 0
    /\ out = [c \in Cells |-> <<>>]
    /\ hist = <<>>
    /\ results = <<>>

Bind(n, names) == [n EXCEPT !.bound = @ \cup names]

\* Function(x) takes a Symbol (or a string) and raises TypeError otherwise
IsSymbol(x) == x.op = "sym"

(***************************************************************************)
(* The statements, each as the namespace it leaves.                        *)
(***************************************************************************)
\* from sympy import *
Stmt21(n) == Bind(n, {"sympy"})

\* Stmt82 declaring the symbols only where theta is not bound yet
Stmt82OnlyOnce(n) ==
    IF "theta" \in n.bound THEN n
    ELSE Bind([n EXCEPT !.theta = Sym("theta", TRUE),
                        !.theta_dot = Sym("theta_dot", TRUE),
                        !.t = Sym("t", TRUE)],
              {"theta", "theta_dot", "t"})

\* theta, theta_dot, t = symbols('theta theta_dot t', real=True)
Stmt82(n) ==
    Bind([n EXCEPT !.theta = Sym("theta", TRUE),
                   !.theta_dot = Sym("theta_dot", TRUE),
                   !.t = Sym("t", TRUE)],
         {"theta", "theta_dot", "t"})

\* theta_t = Function(theta)(t)
Stmt98(n) == Bind([n EXCEPT !.theta_t = Apply(n.theta, n.t)], {"theta_t"})

\* Theta = 1 / theta_t ** 2 * (1 - theta_t / 2 * sin(theta_t) / (1 - cos(theta_t)))
Stmt108(n) ==
    LET x == n.theta_t
    IN  Bind([n EXCEPT !.Theta =
                 Times(Over(One, MkPow(x, IntNum(2))),
                       Minus(One, Over(Times(Over(x, IntNum(2)), Fun("sin", x)),
                                       Minus(One, Fun("cos", x)))))],
             {"Theta"})

\* T_dot = Theta.diff(t)
Stmt125(n) == Bind([n EXCEPT !.T_dot = Diff(n.Theta, n.t)], {"T_dot"})

\* Pairs144 with the two pairs in the other order
Pairs144Swapped(n) == << <<n.theta_t, n.theta>>, <<Diff(n.theta_t, n.t), n.theta_dot>> >>

\* the list [(theta_t.diff(t), theta_dot), (theta_t, theta)]
Pairs144(n) == << <<Diff(n.theta_t, n.t), n.theta_dot>>, <<n.theta_t, n.theta>> >>

\* T_dot = T_dot.subs([(theta_t.diff(t), theta_dot), (theta_t, theta)])
Stmt144(n) == [n EXCEPT !.T_dot = SubsSeq(n.T_dot, Pairs144(n))]

\* phi_names = ('varphi_0', 'varphi_1', 'varphi_2')
Stmt170(n) ==
    Bind([n EXCEPT !.phi_names = <<"varphi_0", "varphi_1", "varphi_2">>],
         {"phi_names"})
\* phi = []; phi_t = []; phi_d = []; phi_n = []
Stmt171(n) == Bind([n EXCEPT !.phi = <<>>], {"phi"})
Stmt172(n) == Bind([n EXCEPT !.phi_t = <<>>], {"phi_t"})
Stmt173(n) == Bind([n EXCEPT !.phi_d = <<>>], {"phi_d"})
Stmt174(n) == Bind([n EXCEPT !.phi_n = <<>>], {"phi_n"})
\* for i in phi_names: the next element is bound to i
Stmt175(n, k) == Bind([n EXCEPT !.i = n.phi_names[k]], {"i"})
\* phi.append(symbols(i, real=True))
Stmt176(n) == [n EXCEPT !.phi = Append(@, Sym(n.i, TRUE))]
\* phi_t.append(Function(phi[-1])(t))
Stmt177(n) == [n EXCEPT !.phi_t = Append(@, Apply(n.phi[Len(n.phi)], n.t))]
\* phi_d.append(phi_t[-1].diff(t))
Stmt178(n) == [n EXCEPT !.phi_d = Append(@, Diff(n.phi_t[Len(n.phi_t)], n.t))]
\* phi_n.append(i + '_dot')
Stmt179(n) == [n EXCEPT !.phi_n = Append(@, n.i \o "_dot")]

\* theta = Matrix(phi_t).norm()
Stmt195(n) == Bind([n EXCEPT !.theta = Norm(n.phi_t)], {"theta"})

\* Stmt212 assigning to T_dot instead of theta_dot
Stmt212IntoTdot(n) == Bind([n EXCEPT !.T_dot = Diff(n.theta, n.t)], {"T_dot"})

\* theta_dot = theta.diff(t)
Stmt212(n) == Bind([n EXCEPT !.theta_dot = Diff(n.theta, n.t)], {"theta_dot"})

\* Pairs229 with each derivative paired with the rate name of the next index
Pairs229Shifted(n) ==
    [k \in 1..Len(n.phi_d) |->
        <<n.phi_d[k], Sympify(n.phi_n[(k % Len(n.phi_n)) + 1])>>]

\* zip(phi_d, phi_n): each derivative with the rate name of the same index;
\* subs turns the name, a string, into a symbol
Pairs229(n) ==
    [k \in 1..Len(n.phi_d) |-> <<n.phi_d[k], Sympify(n.phi_n[k])>>]
\* zip(phi_t, phi)
Pairs230(n) ==
    [k \in 1..Len(n.phi_t) |-> <<n.phi_t[k], n.phi[k]>>]

\* Stmt230 substituting the pairs of line 229 once more
Stmt230Repeat229(n) == [n EXCEPT !.theta_dot = SubsSeq(n.theta_dot, Pairs229(n))]

\* theta_dot = theta_dot.subs(a for a in zip(phi_d, phi_n))
Stmt229(n) == [n EXCEPT !.theta_dot = SubsSeq(n.theta_dot, Pairs229(n))]
\* theta_dot = theta_dot.subs(a for a in zip(phi_t, phi))
Stmt230(n) == [n EXCEPT !.theta_dot = SubsSeq(n.theta_dot, Pairs230(n))]

\* A, t = symbols('A t', real=True)
Stmt247(n) ==
    Bind([n EXCEPT !.A = Sym("A", TRUE), !.t = Sym("t", TRUE)], {"A", "t"})
\* A_t = Function(A)(t)
Stmt248(n) == Bind([n EXCEPT !.A_t = Apply(n.A, n.t)], {"A_t"})
\* d = diff(exp(A_t), t)
Stmt249(n) == Bind([n EXCEPT !.d = Diff(Fun("exp", n.A_t), n.t)], {"d"})

(***************************************************************************)
(* What a cell shows: the value of the expression on its last line, or     *)
(* what it prints.                                                         *)
(***************************************************************************)
Result(text) == [kind |-> "result", text |-> text]
Stdout(text) == [kind |-> "stdout", text |-> text]
Traceback == [kind |-> "error", text |-> <<"Traceback">>]

\* Shown with line 231 showing theta, the norm, instead of theta_dot
ShownTheta231(line, n) ==
    CASE line = "L99" -> Result(Str(n.theta_t))
      [] line = "L109" -> Result(Str(n.Theta))
      [] line = "L126" -> Result(Str(n.T_dot))
      [] line = "L145" -> Result(Str(n.T_dot))
      [] line = "L154" -> Result(PyCode(n.T_dot))
      [] line = "L196" -> Result(Str(n.theta))
      [] line = "L213" -> Result(Str(n.theta_dot))
      [] line = "L231" -> Result(Str(n.theta))

\* the text shown for the expression statement at each line
Shown(line, n) ==
    CASE line = "L99" -> Result(Str(n.theta_t))
      [] line = "L109" -> Result(Str(n.Theta))
      [] line = "L126" -> Result(Str(n.T_dot))
      [] line = "L145" -> Result(Str(n.T_dot))
      [] line = "L154" -> Result(PyCode(n.T_dot))
      [] line = "L196" -> Result(Str(n.theta))
      [] line = "L213" -> Result(Str(n.theta_dot))
      [] line = "L231" -> Result(Str(n.theta_dot))

\* print(d)
Printed250(n) == Stdout(Str(n.d))

(***************************************************************************)
(* The record of a run: which differentiation or substitution was applied  *)
(* to the value of which name, in the order of execution.  A substitution  *)
(* of several pairs is recorded pair by pair, each with whether the        *)
(* expression it is applied to still holds an unevaluated derivative and   *)
(* whether the pair replaced anything.                                     *)
(***************************************************************************)
DiffEntry(var) == [var |-> var, op |-> "diff", derLeft |-> FALSE, hit |-> TRUE]

SubsKind(old) ==
    IF old.op = "der" THEN "subs_der"
    ELSE IF old.op = "fn" THEN "subs_fn"
    ELSE "subs"

RECURSIVE SubsLog(_, _, _)
SubsLog(var, e, pairs) ==
    IF pairs = <<>> THEN <<>>
    ELSE LET e2 == Subs(e, pairs[1][1], pairs[1][2])
         IN  <<[var |-> var, op |-> SubsKind(pairs[1][1]),
                derLeft |-> DerivativesIn(e) # {}, hit |-> e2 # e]>>
             \o SubsLog(var, e2, Tail(pairs))

(***************************************************************************)
(* Execution of one statement.  A statement that reads a name that is not  *)
(* bound, or calls Function on something that is no symbol, raises: the    *)
(* cell shows the traceback and the run stops.  The first statement of a   *)
(* cell clears the cell's previous output.                                 *)
(***************************************************************************)
Has(names) == names \subseteq ns.bound

Run(line, cell, first, ok, next, n2, shown, h2) ==
    /\ pc = line
    /\ IF ok
       THEN /\ pc' = next
            /\ ns' = n2
            /\ hist' = h2
            /\ out' = [out EXCEPT ![cell] = (IF first THEN <<>> ELSE @) \o shown]
       ELSE /\ pc' = "error"
            /\ UNCHANGED <<ns, hist>>
            /\ out' = [out EXCEPT ![cell] =
                          (IF first THEN <<>> ELSE @) \o <<Traceback>>]

Cell21 ==
    /\ Run("L21", 21, TRUE, TRUE, "L82", Stmt21(ns), <<>>, hist)
    /\ UNCHANGED <<it, results>>

Cell82 ==
    /\ Run("L82", 82, TRUE, Has({"sympy"}), "L98", Stmt82(ns), <<>>, hist)
    /\ UNCHANGED <<it, results>>

Cell98 ==
    /\ \/ Run("L98", 98, TRUE, Has({"sympy", "theta", "t"}) /\ IsSymbol(ns.theta),
              "L99", Stmt98(ns), <<>>, hist)
       \/ Run("L99", 98, FALSE, Has({"theta_t"}),
              "L108", ns, <<Shown("L99", ns)>>, hist)
    /\ UNCHANGED <<it, results>>

Cell108 ==
    /\ \/ Run("L108", 108, TRUE, Has({"sympy", "theta_t"}),
              "L109", Stmt108(ns), <<>>, hist)
       \/ Run("L109", 108, FALSE, Has({"Theta"}),
              "L125", ns, <<Shown("L109", ns)>>, hist)
    /\ UNCHANGED <<it, results>>

Cell125 ==
    /\ \/ Run("L125", 125, TRUE, Has({"Theta", "t"}),
              "L126", Stmt125(ns), <<>>, Append(hist, DiffEntry("T_dot")))
       \/ Run("L126", 125, FALSE, Has({"T_dot"}),
              "L144", ns, <<Shown("L126", ns)>>, hist)
    /\ UNCHANGED <<it, results>>

Cell144 ==
    /\ \/ Run("L144", 144, TRUE, Has({"T_dot", "theta_t", "t", "theta_dot", "theta"}),
              "L145", Stmt144(ns), <<>>,
              hist \o SubsLog("T_dot", ns.T_dot, Pairs144(ns)))
       \/ Run("L145", 144, FALSE, Has({"T_dot"}),
              "L154", ns, <<Shown("L145", ns)>>, hist)
    /\ UNCHANGED <<it, results>>

Cell154 ==
    /\ Run("L154", 154, TRUE, Has({"sympy", "T_dot"}),
           "L170", ns, <<Shown("L154", ns)>>, hist)
    /\ UNCHANGED <<it, results>>

\* the cell of the for loop; the loop ends when phi_names is exhausted
Cell170 ==
    \/ /\ \/ Run("L170", 170, TRUE, TRUE, "L171", Stmt170(ns), <<>>, hist)
          \/ Run("L171", 170, FALSE, TRUE, "L172", Stmt171(ns), <<>>, hist)
          \/ Run("L172", 170, FALSE, TRUE, "L173", Stmt172(ns), <<>>, hist)
          \/ Run("L173", 170, FALSE, TRUE, "L174", Stmt173(ns), <<>>, hist)
          \/ Run("L174", 170, FALSE, TRUE, "L175", Stmt174(ns), <<>>, hist)
          \/ Run("L176", 170, FALSE, Has({"sympy", "phi", "i"}),
                 "L177", Stmt176(ns), <<>>, hist)
          \/ Run("L177", 170, FALSE,
                 Has({"sympy", "phi_t", "phi", "t"}) /\ ns.phi # <<>>
                    /\ IsSymbol(ns.phi[Len(ns.phi)]),
                 "L178", Stmt177(ns), <<>>, hist)
          \/ Run("L178", 170, FALSE, Has({"phi_d", "phi_t", "t"}) /\ ns.phi_t # <<>>,
                 "L179", Stmt178(ns), <<>>, hist)
          \/ Run("L179", 170, FALSE, Has({"phi_n", "i"}),
                 "L175next", Stmt179(ns), <<>>, hist)
       /\ UNCHANGED <<it, results>>
    \/ /\ Run("L175", 170, FALSE, Has({"phi_names"}), "L175next", ns, <<>>, hist)
       /\ it' = 0
       /\ UNCHANGED results
    \/ /\ pc = "L175next"
       /\ IF it < Len(ns.phi_names)
          THEN /\ ns' = Stmt175(ns, it + 1)
               /\ it' = it + 1
               /\ pc' = "L176"
          ELSE /\ pc' = "L195"
               /\ UNCHANGED <<ns, it>>
       /\ UNCHANGED <<out, hist, results>>

Cell195 ==
    /\ \/ Run("L195", 195, TRUE, Has({"sympy", "phi_t"}),
              "L196", Stmt195(ns), <<>>, hist)
       \/ Run("L196", 195, FALSE, Has({"theta"}),
              "L212", ns, <<Shown("L196", ns)>>, hist)
    /\ UNCHANGED <<it, results>>

Cell212 ==
    /\ \/ Run("L212", 212, TRUE, Has({"theta", "t"}),
              "L213", Stmt212(ns), <<>>, Append(hist, DiffEntry("theta_dot")))
       \/ Run("L213", 212, FALSE, Has({"theta_dot"}),
              "L229", ns, <<Shown("L213", ns)>>, hist)
    /\ UNCHANGED <<it, results>>

Cell229 ==
    /\ \/ Run("L229", 229, TRUE, Has({"theta_dot", "phi_d", "phi_n"}),
              "L230", Stmt229(ns), <<>>,
              hist \o SubsLog("theta_dot", ns.theta_dot, Pairs229(ns)))
       \/ Run("L230", 229, FALSE, Has({"theta_dot", "phi_t", "phi"}),
              "L231", Stmt230(ns), <<>>,
              hist \o SubsLog("theta_dot", ns.theta_dot, Pairs230(ns)))
       \/ Run("L231", 229, FALSE, Has({"theta_dot"}),
              "L247", ns, <<Shown("L231", ns)>>, hist)
    /\ UNCHANGED <<it, results>>

\* the last cell; with its last statement a run of all cells is complete
Cell247 ==
    \/ /\ \/ Run("L247", 247, TRUE, Has({"sympy"}), "L248", Stmt247(ns), <<>>, hist)
          \/ Run("L248", 247, FALSE, Has({"sympy", "A", "t"}) /\ IsSymbol(ns.A),
                 "L249", Stmt248(ns), <<>>, hist)
          \/ Run("L249", 247, FALSE, Has({"sympy", "A_t", "t"}),
                 "L250", Stmt249(ns), <<>>, hist)
       /\ UNCHANGED <<it, results>>
    \/ /\ Run("L250", 247, FALSE, Has({"d"}), "done", ns, <<Printed250(ns)>>, hist)
       /\ results' = IF Has({"d"})
                     THEN Append(results, [T_dot |-> ns.T_dot, theta_dot |-> ns.theta_dot])
                     ELSE results
       /\ UNCHANGED it

\* the cells are run again in the same session, from the first cell or
\* from the cell that declares the symbols
RerunFrom == {"L21", "L82"}

Rerun ==
    /\ pc = "done"
    /\ Len(results) < MaxRuns
    /\ pc' \in RerunFrom
    /\ hist' = <<>>
    /\ UNCHANGED <<ns, it, out, results>>

Next ==
    \/ Cell21 \/ Cell82 \/ Cell98 \/ Cell108 \/ Cell125 \/ Cell144 \/ Cell154
    \/ Cell170 \/ Cell195 \/ Cell212 \/ Cell229 \/ Cell247 \/ Rerun

Spec == Init /\ [][Next]_vars

(***************************************************************************)
(* Positions in a run, for stating when a result is final.                 *)
(***************************************************************************)
Order ==
    <<"L21", "L82", "L98", "L99", "L108", "L109", "L125", "L126", "L144", "L145",
      "L154", "L170", "L171", "L172", "L173", "L174", "L175", "L175next", "L176",
      "L177", "L178", "L179", "L195", "L196", "L212", "L213", "L229", "L230",
      "L231", "L247", "L248", "L249", "L250", "done">>

Pos(l) == CHOOSE k \in 1..Len(Order) : Order[k] = l

\* the statement at line l has been executed in the current run
Past(l) == pc # "error" /\ Pos(pc) > Pos(l)

\* a run of all cells is complete: the namespace holds the final expressions
Finished == pc = "done"

Reverse(s) == [k \in 1..Len(s) |-> s[Len(s) + 1 - k]]

(***************************************************************************)
(* The value of a time-independent expression at a sample point.  A value  *)
(* is (n/d) * sqrt(r); ok is FALSE where the expression has no value (a    *)
(* division by zero, a symbol the point does not assign, a function of     *)
(* time).  sin(x) and cos(x) of a symbol x are assigned by the point like  *)
(* symbols, under the names "sin(x)" and "cos(x)".                         *)
(***************************************************************************)
Val(n, d, r) ==
    LET q == Num(n, d)
    IN  [n |-> q.n, d |-> q.d, r |-> IF q.n = 0 THEN 1 ELSE r, ok |-> TRUE]
NoVal == [n |-> 0, d |-> 1, r |-> 1, ok |-> FALSE]

ValAdd(a, b) ==
    IF ~(a.ok /\ b.ok) THEN NoVal
    ELSE IF a.n = 0 THEN b
    ELSE IF b.n = 0 THEN a
    ELSE IF a.r = b.r THEN Val(a.n * b.d + b.n * a.d, a.d * b.d, a.r)
    ELSE NoVal

ValMul(a, b) ==
    IF ~(a.ok /\ b.ok) THEN NoVal
    ELSE IF a.r = b.r THEN Val(a.n * b.n * a.r, a.d * b.d, 1)
    ELSE Val(a.n * b.n, a.d * b.d, a.r * b.r)

\* a ** x for a Rational x: an integer, 1/2 or -1/2
ValPow(a, x) ==
    IF ~a.ok THEN NoVal
    ELSE IF x.d = 1 /\ a.r = 1 /\ (a.n # 0 \/ x.n > 0)
         THEN LET q == NumPow(Num(a.n, a.d), x.n) IN Val(q.n, q.d, 1)
    ELSE IF x = Num(1, 2) /\ a.r = 1 /\ a.n = 0 THEN Val(0, 1, 1)
    ELSE IF x = Num(1, 2) /\ a.r = 1 /\ a.n > 0 THEN Val(1, a.d, a.n * a.d)
    ELSE IF x = Num(-1, 2) /\ a.r = 1 /\ a.n > 0 THEN Val(1, a.n, a.n * a.d)
    ELSE NoVal

ValEq(a, b) ==
    /\ a.ok /\ b.ok
    /\ IF a.r = b.r THEN a.n = b.n /\ a.d = b.d
       ELSE /\ (a.n > 0) = (b.n > 0) /\ (a.n < 0) = (b.n < 0)
            /\ a.n * a.n * a.r * b.d * b.d = b.n * b.n * b.r * a.d * a.d

AtomKey(e) ==
    IF e.op = "sym" THEN e.name
    ELSE IF e.op \in {"sin", "cos"} /\ e.args[1].op = "sym"
         THEN e.op \o "(" \o e.args[1].name \o ")"
    ELSE ""

RECURSIVE ValSum(_)
ValSum(vs) == IF vs = <<>> THEN Val(0, 1, 1) ELSE ValAdd(Head(vs), ValSum(Tail(vs)))
RECURSIVE ValProd(_)
ValProd(vs) == IF vs = <<>> THEN Val(1, 1, 1) ELSE ValMul(Head(vs), ValProd(Tail(vs)))

RECURSIVE Eval(_, _)
Eval(e, point) ==
    CASE e.op = "num" -> Val(e.n, e.d, 1)
      [] e.op \in {"sym", "sin", "cos"} ->
            IF AtomKey(e) \in DOMAIN point THEN Val(point[AtomKey(e)], 1, 1) ELSE NoVal
      [] e.op = "add" -> ValSum([k \in 1..Len(e.args) |-> Eval(e.args[k], point)])
      [] e.op = "mul" -> ValProd([k \in 1..Len(e.args) |-> Eval(e.args[k], point)])
      [] e.op = "pow" ->
            IF IsNum(e.args[2]) THEN ValPow(Eval(e.args[1], point), e.args[2])
            ELSE NoVal
      [] OTHER -> NoVal

(***************************************************************************)
(* Sample points.                                                          *)
(***************************************************************************)
SampleRange == (-SampleMax)..SampleMax
VecRange == (-VecMax)..VecMax

\* values for theta, sin(theta), cos(theta) and theta_dot, taken as
\* independent quantities, away from theta = 0 and cos(theta) = 1
ThetaPoint(th, s, c, thd) ==
    ("theta" :> th) @@ ("sin(theta)" :> s) @@ ("cos(theta)" :> c) @@ ("theta_dot" :> thd)

\* values for the vector varphi and its rate varphi_dot
VecPoint(p, q) ==
    ("varphi_0" :> p[1]) @@ ("varphi_1" :> p[2]) @@ ("varphi_2" :> p[3])
    @@ ("varphi_0_dot" :> q[1]) @@ ("varphi_1_dot" :> q[2]) @@ ("varphi_2_dot" :> q[3])

Vecs == VecRange \X VecRange \X VecRange
DotProduct(p, q) == p[1] * q[1] + p[2] * q[2] + p[3] * q[3]

\* the names of the plain symbols and of the rate symbols of step 7
PhiNames == {"varphi_0", "varphi_1", "varphi_2"}
PhiDotNames == {"varphi_0_dot", "varphi_1_dot", "varphi_2_dot"}

(***************************************************************************)
(* C1: in both derivations a function of time x(t) is replaced only after  *)
(* the expression has been differentiated and only when no derivative      *)
(* d x(t)/dt is left in it: differentiate, then replace the derivative     *)
(* terms, then replace the functions of time.                              *)
(***************************************************************************)
C1_DiffThenDerivativeThenBase ==
    \A j \in DOMAIN hist :
        (hist[j].op = "subs_fn" /\ hist[j].hit) =>
            /\ \E k \in 1..(j - 1) : hist[k].op = "diff" /\ hist[k].var = hist[j].var
            /\ \E k \in 1..(j - 1) :
                  hist[k].op = "subs_der" /\ hist[k].hit /\ hist[k].var = hist[j].var
            /\ ~hist[j].derLeft

\* both derivations have replaced their functions of time
C1_Witness ==
    /\ Finished
    /\ \A v \in {"T_dot", "theta_dot"} :
          \E j \in DOMAIN hist : hist[j].var = v /\ hist[j].op = "subs_fn" /\ hist[j].hit

(***************************************************************************)
(* C4: after step 4 T_dot has the free symbols theta and theta_dot only,   *)
(* after step 7 theta_dot has the free symbols varphi_i and varphi_i_dot   *)
(* only; neither holds a function of time, a derivative or t.              *)
(***************************************************************************)
TimeFree(e) == AppliedIn(e) = {} /\ DerivativesIn(e) = {} /\ "t" \notin SymbolNames(e)

C4_TimeIndependent ==
    /\ Past("L144") =>
          TimeFree(ns.T_dot) /\ SymbolNames(ns.T_dot) = {"theta", "theta_dot"}
    /\ Past("L230") =>
          TimeFree(ns.theta_dot)
             /\ SymbolNames(ns.theta_dot) = PhiNames \cup PhiDotNames

C4_Witness ==
    /\ Finished
    /\ "theta_dot" \in SymbolNames(ns.T_dot)
    /\ "varphi_2_dot" \in SymbolNames(ns.theta_dot)

(***************************************************************************)
(* C5: with the pairs of step 4, or of step 7, applied base pattern first  *)
(* and derivative pattern second, the result still holds an unevaluated    *)
(* derivative and differs from the derivative-first result.                *)
(***************************************************************************)
C5_ReverseOrderLeavesDerivative ==
    /\ pc = "L144" =>
          LET rev == SubsSeq(ns.T_dot, Reverse(Pairs144(ns)))
          IN  DerivativesIn(rev) # {} /\ rev # Stmt144(ns).T_dot
    /\ pc = "L229" =>
          LET rev == SubsSeq(SubsSeq(ns.theta_dot, Pairs230(ns)), Pairs229(ns))
          IN  DerivativesIn(rev) # {} /\ rev # Stmt230(Stmt229(ns)).theta_dot

\* step 4 is about to substitute into an expression that holds d theta(t)/dt
C5_Witness ==
    /\ pc = "L144"
    /\ Derivative(ns.theta_t, ns.t) \in DerivativesIn(ns.T_dot)
    /\ DerivativesIn(Stmt144(ns).T_dot) = {}

(***************************************************************************)
(* C7: a run of all cells after a complete run, in the same session,       *)
(* completes and leaves the same T_dot and theta_dot as the first run.     *)
(***************************************************************************)
C7_RerunSameResults ==
    /\ pc # "error"
    /\ \A k \in DOMAIN results : results[k] = results[1]

\* a second run is complete, started after the first rebound theta, theta_dot, t
C7_Witness ==
    /\ Len(results) >= 2
    /\ ~IsSymbol(ns.theta) /\ ~IsSymbol(ns.theta_dot)

(***************************************************************************)
(* C2: the T_dot of step 4 is the chain-rule derivative of Theta,          *)
(*   theta_dot * [ -2/theta^3 * (1 - theta*sin/(2*(1-cos)))                *)
(*                 + 1/theta^2 * ( -sin/(2*(1-cos)) - theta*cos/(2*(1-cos))*)
(*                                 + theta*sin^2/(2*(1-cos)^2) ) ],        *)
(* with nothing dropped: the two have the same value at every sample       *)
(* point, sin(theta) and cos(theta) taken as independent quantities.       *)
(***************************************************************************)
\* the expression of the claim, written out node by node
ChainRuleTdot ==
    LET th == Sym("theta", TRUE)
        thd == Sym("theta_dot", TRUE)
        sn == Fun("sin", th)
        cs == Fun("cos", th)
        omc == RawAdd(<<One, RawMul(<<IntNum(-1), cs>>)>>)
        inv(x) == RawPow(x, IntNum(-1))
        two(x) == RawMul(<<IntNum(2), x>>)
    IN  RawMul(<<thd,
          RawAdd(<<
            RawMul(<<IntNum(-2), RawPow(th, IntNum(-3)),
                     RawAdd(<<One, RawMul(<<IntNum(-1), th, sn, inv(two(omc))>>)>>)>>),
            RawMul(<<RawPow(th, IntNum(-2)),
                     RawAdd(<<RawMul(<<IntNum(-1), sn, inv(two(omc))>>),
                              RawMul(<<IntNum(-1), th, cs, inv(two(omc))>>),
                              RawMul(<<th, RawPow(sn, IntNum(2)),
                                       inv(two(RawPow(omc, IntNum(2))))>>)>>)>>)>>)>>)

ThetaPoints ==
    {ThetaPoint(th, s, c, thd) :
        th \in SampleRange \ {0}, s \in SampleRange, c \in SampleRange \ {1},
        thd \in SampleRange}

C2_TdotIsChainRule ==
    pc = "L145" =>
        \A point \in ThetaPoints :
            ValEq(Eval(ns.T_dot, point), Eval(ChainRuleTdot, point))

\* the emitted T_dot has a value that is not 0 at a sample point
C2_Witness ==
    /\ pc = "L145"
    /\ LET v == Eval(ns.T_dot, ThetaPoint(1, 1, 0, 1))
       IN  v.ok /\ v.n = -1 /\ v.d = 1

(***************************************************************************)
(* C3: the theta_dot of step 7 is                                          *)
(*   (varphi_0*varphi_0_dot + varphi_1*varphi_1_dot + varphi_2*varphi_2_dot)*)
(*   / sqrt(varphi_0^2 + varphi_1^2 + varphi_2^2),                         *)
(* each rate paired with the component of the same index.                  *)
(***************************************************************************)
DotOverNorm(p, q) ==
    ValMul(Val(DotProduct(p, q), 1, 1), ValPow(Val(DotProduct(p, p), 1, 1), Num(-1, 2)))

C3_ThetaDotIsDotOverNorm ==
    pc = "L231" =>
        /\ SymbolNames(ns.theta_dot) = PhiNames \cup PhiDotNames
        /\ \A p \in Vecs, q \in Vecs :
              DotProduct(p, p) # 0 =>
                  ValEq(Eval(ns.theta_dot, VecPoint(p, q)), DotOverNorm(p, q))

\* the final theta_dot has a value that is not 0 where varphi_dot = varphi
C3_Witness ==
    /\ pc = "L231"
    /\ LET v == Eval(ns.theta_dot, VecPoint(<<1, 1, 0>>, <<1, 1, 0>>))
       IN  v.ok /\ v.n > 0 /\ v.r = 2

(***************************************************************************)
(* C6: where varphi is not the zero vector and varphi_dot is orthogonal to *)
(* it, the final theta_dot has the value 0.                                *)
(***************************************************************************)
C6_OrthogonalRateGivesZero ==
    pc = "L231" =>
        \A p \in Vecs, q \in Vecs :
            (DotProduct(p, p) # 0 /\ DotProduct(p, q) = 0) =>
                LET v == Eval(ns.theta_dot, VecPoint(p, q)) IN v.ok /\ v.n = 0

\* the value is 0 at varphi = (1,0,0), varphi_dot = (0,1,0) and is not 0 at
\* varphi = (1,0,0), varphi_dot = (1,0,0)
C6_Witness ==
    /\ pc = "L231"
    /\ LET v == Eval(ns.theta_dot, VecPoint(<<1, 0, 0>>, <<0, 1, 0>>))
           w == Eval(ns.theta_dot, VecPoint(<<1, 0, 0>>, <<1, 0, 0>>))
       IN  v.ok /\ v.n = 0 /\ w.ok /\ w.n # 0

(***************************************************************************)
(* C8 as stated: a run outputs exactly two expressions, the final T_dot    *)
(* and the final theta_dot, and prints no other.                           *)
(***************************************************************************)
\* every output of the session, cell by cell in the order of the notebook
RECURSIVE OutputsFrom(_)
OutputsFrom(cells) ==
    IF cells = {} THEN <<>>
    ELSE LET c == CHOOSE x \in cells : \A y \in cells : x <= y
         IN  out[c] \o OutputsFrom(cells \ {c})
AllOutputs == OutputsFrom(Cells)

RendersFinal(x) ==
    x.text \in {Str(ns.T_dot), PyCode(ns.T_dot), Str(ns.theta_dot), PyCode(ns.theta_dot)}

C8_ExactlyTwoOutputs ==
    Finished =>
        /\ Len(AllOutputs) = 2
        /\ \A k \in DOMAIN AllOutputs : RendersFinal(AllOutputs[k])

(***************************************************************************)
(* C8 amended: a run shows the final T_dot (as the value of the cell of    *)
(* step 4 and as pycode text) and the final theta_dot (as the value of the *)
(* cell of step 7); besides them the cells show the intermediate           *)
(* expressions, one per cell, and the last cell prints one more            *)
(* expression, d, which is the only printed output and is neither of the   *)
(* two final expressions.                                                  *)
(***************************************************************************)
C8_OutputsOfARun ==
    Finished =>
        /\ out[144] = <<Result(Str(ns.T_dot))>>
        /\ out[154] = <<Result(PyCode(ns.T_dot))>>
        /\ out[229] = <<Result(Str(ns.theta_dot))>>
        /\ {c \in Cells : out[c] # <<>>} = {98, 108, 125, 144, 154, 195, 212, 229, 247}
        /\ \A c \in Cells : Len(out[c]) <= 1
        /\ \A k \in DOMAIN AllOutputs :
              AllOutputs[k].kind = "stdout" <=> AllOutputs[k] = out[247][1]
        /\ out[247] = <<Stdout(Str(ns.d))>>
        /\ ~RendersFinal(out[247][1])
        /\ \A c \in {98, 108, 125, 195, 212} : ~RendersFinal(out[c][1])

\* a complete run, its last output the printed derivative of exp(A(t))
C8_Witness ==
    /\ Finished
    /\ Len(AllOutputs) = 9
    /\ AllOutputs[9].kind = "stdout"
    /\ AllOutputs[9].text = Str(MkMul(<<Fun("exp", Apply(Sym("A", TRUE), Sym("t", TRUE))),
                                        Derivative(Apply(Sym("A", TRUE), Sym("t", TRUE)),
                                                   Sym("t", TRUE))>>))

(***************************************************************************)
(* C9: every symbol in the final T_dot and the final theta_dot carries the *)
(* real=True assumption, the rate symbols of step 7 included.              *)
(***************************************************************************)
C9_AllSymbolsReal ==
    Past("L230") =>
        \A x \in FreeSymbols(ns.T_dot) \cup FreeSymbols(ns.theta_dot) : x.real

(***************************************************************************)
(* C10: steps 5-7 leave the results of steps 2 and 4 alone: no statement   *)
(* from the norm cell on changes the values of Theta and T_dot, and after  *)
(* step 7 T_dot still holds the plain symbols theta and theta_dot, not the *)
(* norm and its derivative that these names are then bound to.             *)
(***************************************************************************)
C10_SecondDerivationKeepsFirst ==
    /\ [][Past("L154") => (ns'.T_dot = ns.T_dot /\ ns'.Theta = ns.Theta)]_vars
    /\ [](Past("L230") =>
            /\ FreeSymbols(ns.T_dot) = {Sym("theta", TRUE), Sym("theta_dot", TRUE)}
            /\ ns.theta \notin Nodes(ns.T_dot) /\ ns.theta_dot \notin Nodes(ns.T_dot)
            /\ AppliedIn(ns.Theta) = {Apply(Sym("theta", TRUE), ns.t)})

\* step 7 is done: theta and theta_dot are bound to the norm expressions
C10_Witness ==
    /\ pc = "L231"
    /\ ns.theta.op = "pow" /\ ns.theta_dot.op = "mul"
    /\ "theta" \in SymbolNames(ns.T_dot)

====
